---- MODULE Spec2Model ----
(***************************************************************************)
(* Billing and payment reconciliation of bdb-backend: the billing          *)
(* controller (createBilling, updateBilling, deleteBilling), the payment   *)
(* controller (createPayment, updatePayment, deletePayment) and the        *)
(* sequence number generator (getNextBillingNumber), over the two          *)
(* collections BillingHistory and Payment.                                 *)
(*                                                                         *)
(* Money is a JavaScript number in the code.  The specifications of the    *)
(* handlers keep it as an integer count of 1/Scale units, which is exact   *)
(* for the items and payment amounts of their requests (every              *)
(* intermediate value is a multiple of 1/Scale that a double holds         *)
(* exactly).  The rounding of the arithmetic is the subject of             *)
(* SpecCalculator, which runs the Calculator on doubles.                   *)
(* A bill number is a string in the code; the model keeps it as a          *)
(* sequence of one-character strings so that the regular expression, the   *)
(* integer conversion and the zero padding are computed, not assumed.      *)
(***************************************************************************)
EXTENDS Integers, Sequences, FiniteSets, TLC

(***************************************************************************)
(* Bounds of the model.                                                    *)
(***************************************************************************)
\* billing records created over a history
MaxBillings == 2
\* payment records created over a history
MaxPayments == 2

\* 32-bit int of the aggregation's $convert
IntMax == 2147483647
\* padStart(6, "0")
PadWidth == 6
\* money is counted in 1/Scale units
Scale == 100 * 100

Null == <<"null">>

(***************************************************************************)
(* Strings: digits, the first digit run, conversion and formatting.        *)
(***************************************************************************)
DigitChars == <<"0", "1", "2", "3", "4", "5", "6", "7", "8", "9">>

IsDigit(c) == \E i \in 1..10 : DigitChars[i] = c

DigitVal(c) == (CHOOSE i \in 1..10 : DigitChars[i] = c) - 1

RECURSIVE DropNonDigits(_)
DropNonDigits(s) ==
  IF s = <<>> THEN <<>>
  ELSE IF IsDigit(Head(s)) THEN s ELSE DropNonDigits(Tail(s))

RECURSIVE TakeDigits(_)
TakeDigits(s) ==
  IF s = <<>> THEN <<>>
  ELSE IF IsDigit(Head(s)) THEN <<Head(s)>> \o TakeDigits(Tail(s)) ELSE <<>>

\* $regexFind with regex \d+ : the first contiguous digit run, <<>> when the
\* input is null or holds no digit
regexFind(s) == IF s = Null THEN <<>> ELSE TakeDigits(DropNonDigits(s))

\* the digits read as a decimal number; -1 when it does not fit a 32-bit int
RECURSIVE DigitsToInt(_, _)
DigitsToInt(ds, acc) ==
  IF ds = <<>> THEN acc
  ELSE LET d == DigitVal(Head(ds))
       IN IF acc > (IntMax - d) \div 10 THEN -1
          ELSE DigitsToInt(Tail(ds), acc * 10 + d)

\* $convert to int of $ifNull [match, "0"], onError 0, onNull 0
convertToInt(ds) ==
  IF ds = <<>> THEN 0
  ELSE LET v == DigitsToInt(ds, 0) IN IF v < 0 THEN 0 ELSE v

numericPart(billNumber) == convertToInt(regexFind(billNumber))

\* Number.prototype.toString of a non-negative integer
RECURSIVE toString(_)
toString(n) ==
  IF n < 10 THEN <<DigitChars[n + 1]>>
  ELSE toString(n \div 10) \o <<DigitChars[(n % 10) + 1]>>

RECURSIVE padStart(_, _)
padStart(s, width) ==
  IF Len(s) >= width THEN s ELSE padStart(<<"0">> \o s, width)

SetMax(S) == CHOOSE m \in S : \A x \in S : x <= m

BillPrefix == <<"B", "I", "L", "L", "-">>

\* a request field that may be absent: Undefined, or Given(value)
Undefined == [given |-> FALSE]

Given(v) == [given |-> TRUE, value |-> v]

Optional(S) == {Undefined} \cup {Given(v) : v \in S}

(***************************************************************************)
(* The inputs the requests are drawn from.                                 *)
(***************************************************************************)
\* the Case collection (read only here): case id -> its client
cases == [c \in {"case1"} |-> [client |-> "client1"]]

\* a case id that is stored, and one that is not
StoredCase == "case1"

MissingCase == "case2"

\* line items as the client sends them (amount is the client's value)
ItemA == [quantity |-> 1, price |-> 2, discount |-> 0, vat |-> 0, amount |-> 2 * Scale]

ItemB == [quantity |-> 1, price |-> 1, discount |-> 50, vat |-> 100, amount |-> 0]

\* a line item sent without discount, vat and amount
ItemC == [quantity |-> 1, price |-> 2]

\* item lists of a request: grand totals 0 and 3
ItemLists == {<<>>, <<ItemA, ItemB>>}

\* bill numbers a caller supplies
SuppliedNumbers ==
  { <<"B", "I", "L", "L", "-", "0", "0", "0", "0", "0", "1">>,
    <<"B", "I", "L", "L", "-", "0", "0", "0", "0", "0", "2">>,
    <<"X">> }

\* payment amounts of a request, in money units; 0 fails the validator
PaymentAmounts == {0, 1 * Scale, 2 * Scale}

\* a createBilling request body
BillingRequest(caseId, billingType, billNumber, items) ==
  [case |-> caseId, billingType |-> billingType, billNumber |-> billNumber, items |-> items]

\* well-formed bodies: one-time billings over every item list, a time-based one
\* of grand total 2
GoodBillingRequests(numbers) ==
  { BillingRequest(StoredCase, "oneTime", n, Given(i)) : n \in numbers, i \in ItemLists }
  \cup { BillingRequest(StoredCase, "timeBased", n, Given(<<ItemA>>)) : n \in numbers }

\* bodies that pass the validator and fail later: a case that is not stored, a
\* billingType outside the schema's enum, no items, an item without all of its
\* numeric fields
BadBillingRequests ==
  { BillingRequest(MissingCase, "oneTime", Undefined, Given(<<>>)),
    BillingRequest(StoredCase, "milestone", Undefined, Given(<<>>)),
    BillingRequest(StoredCase, "oneTime", Undefined, Undefined),
    BillingRequest(StoredCase, "oneTime", Undefined, Given(<<ItemC>>)) }

(***************************************************************************)
(* BillingHistory schema.                                                  *)
(***************************************************************************)
BillingTypeEnum == {"oneTime", "progressBased", "timeBased", "taskBased"}

StatusEnum == {"unpaid", "paid", "partiallyPaid", "overdue", "overPaid"}

(***************************************************************************)
(* Sequence number generator.                                              *)
(***************************************************************************)
\* the text of max + 1 (a JavaScript number: no 32-bit overflow)
nextDigits(max) ==
  IF max = IntMax
  THEN <<"2", "1", "4", "7", "4", "8", "3", "6", "4", "8">>
  ELSE toString(max + 1)

\* the generator without the increment
getNextBillingNumber_NoIncrement(bills) ==
  LET parts == {numericPart(bills[b].billNumber) : b \in DOMAIN bills}
      maxBillingNumber == IF parts = {} THEN 0 ELSE SetMax(parts)
  IN BillPrefix \o padStart(toString(maxBillingNumber), PadWidth)

getNextBillingNumber(bills) ==
  LET parts == {numericPart(bills[b].billNumber) : b \in DOMAIN bills}
      maxBillingNumber == IF parts = {} THEN 0 ELSE SetMax(parts)
  IN BillPrefix \o padStart(nextDigits(maxBillingNumber), PadWidth)

CasePrefix == <<"C", "A", "S", "-">>

\* getNextCaseNumber: the same pipeline over the caseNumber of the Case
\* collection
getNextCaseNumber(cs) ==
  LET parts == {numericPart(cs[c].caseNumber) : c \in DOMAIN cs}
      maxCaseNumber == IF parts = {} THEN 0 ELSE SetMax(parts)
  IN CasePrefix \o padStart(nextDigits(maxCaseNumber), PadWidth)

(***************************************************************************)
(* Money/LineItem calculator: the reduce of createBilling and              *)
(* updateBilling.                                                          *)
(***************************************************************************)
itemTotal(item) == item.quantity * item.price * Scale

itemDiscount(item) == (itemTotal(item) * item.discount) \div 100

itemVat(item) == ((itemTotal(item) - itemDiscount(item)) * item.vat) \div 100

ZeroTotals == [subTotal |-> 0, tax |-> 0, discount |-> 0, grandTotal |-> 0]

RECURSIVE reduceTotals(_, _)
reduceTotals(items, acc) ==
  IF items = <<>> THEN acc
  ELSE LET item == Head(items)
       IN reduceTotals(Tail(items),
            [subTotal   |-> acc.subTotal + itemTotal(item),
             tax        |-> acc.tax + itemVat(item),
             discount   |-> acc.discount + itemDiscount(item),
             grandTotal |-> acc.grandTotal
                            + (itemTotal(item) - itemDiscount(item) + itemVat(item))])

calculatedTotals(items) == reduceTotals(items, ZeroTotals)

\* an absent field reads as undefined and a product with undefined is NaN: the
\* aggregate is NaN when some item lacks a field its summand reads
isNaN(items, fields) ==
  \E i \in 1..Len(items) : ~(fields \subseteq DOMAIN items[i])

\* which aggregates the reduce leaves as NaN
nanTotals(items) ==
  [subTotal   |-> isNaN(items, {"quantity", "price"}),
   tax        |-> isNaN(items, {"quantity", "price", "discount", "vat"}),
   discount   |-> isNaN(items, {"quantity", "price", "discount"}),
   grandTotal |-> isNaN(items, {"quantity", "price", "discount", "vat"})]

\* the schema casts the four aggregates to Number, and NaN fails the cast
castFails(items) ==
  LET n == nanTotals(items)
  IN n.subTotal \/ n.tax \/ n.discount \/ n.grandTotal

(***************************************************************************)
(* JavaScript numbers.  The Calculator runs on IEEE 754 doubles: every      *)
(* product, quotient, sum and difference is rounded to Precision            *)
(* significant bits, ties to even.  A natural number of any size is kept    *)
(* as its bits, least significant first, without a leading zero; a          *)
(* non-negative double is m * 2^e with m odd (or zero).  The values of the  *)
(* Calculator stay far from the exponent limits, so overflow and            *)
(* subnormals do not arise; differences are taken only where the result is  *)
(* not negative (discount at most 100 percent).                             *)
(***************************************************************************)
\* significand bits of a double
Precision == 53

\* the bits of a without leading zeros
natTrim(a) ==
  LET ones == {i \in 1..Len(a) : a[i] = 1}
  IN IF ones = {} THEN <<>>
     ELSE SubSeq(a, 1, CHOOSE i \in ones : \A j \in ones : j <= i)

RECURSIVE natOf(_)
natOf(n) == IF n = 0 THEN <<>> ELSE <<n % 2>> \o natOf(n \div 2)

bit(a, i) == IF i <= Len(a) THEN a[i] ELSE 0

\* a + b: bit i takes a carry when a lower bit of both is set and every bit
\* between differs (so passes the carry on)
natAdd(a, b) ==
  LET n == IF Len(a) >= Len(b) THEN Len(a) ELSE Len(b)
      carry(i) == IF \E j \in 1..(i - 1) :
                       /\ bit(a, j) = 1
                       /\ bit(b, j) = 1
                       /\ \A k \in (j + 1)..(i - 1) : bit(a, k) # bit(b, k)
                  THEN 1 ELSE 0
  IN natTrim([i \in 1..(n + 1) |-> (bit(a, i) + bit(b, i) + carry(i)) % 2])

\* a - b for a >= b: bit i gives a borrow when a lower bit is set in b only
\* and every bit between is equal (so passes the borrow on)
natSub(a, b) ==
  LET borrow(i) == IF \E j \in 1..(i - 1) :
                        /\ bit(a, j) = 0
                        /\ bit(b, j) = 1
                        /\ \A k \in (j + 1)..(i - 1) : bit(a, k) = bit(b, k)
                   THEN 1 ELSE 0
  IN natTrim([i \in 1..Len(a) |-> (bit(a, i) - bit(b, i) - borrow(i) + 2) % 2])

natLess(a, b) ==
  IF Len(a) # Len(b) THEN Len(a) < Len(b)
  ELSE \E i \in 1..Len(a) :
         a[i] < b[i] /\ \A j \in (i + 1)..Len(a) : a[j] = b[j]

\* a * 2^k
natShl(a, k) == IF a = <<>> THEN <<>> ELSE [i \in 1..k |-> 0] \o a

\* a times bits lo..hi of b, in place: the shifted copies of a for the set bits
\* are added pairwise so that the evaluation stays shallow
RECURSIVE mulBits(_, _, _, _)
mulBits(a, b, lo, hi) ==
  IF lo > hi THEN <<>>
  ELSE IF lo = hi THEN (IF b[lo] = 1 THEN natShl(a, lo - 1) ELSE <<>>)
  ELSE natAdd(mulBits(a, b, lo, (lo + hi) \div 2),
              mulBits(a, b, (lo + hi) \div 2 + 1, hi))

natMul(a, b) == mulBits(a, b, 1, Len(b))

\* long division of bits hi..lo of a by b, from the most significant bit
\* down, with r the remainder so far: the quotient bits, most significant
\* first, and the remainder; the range is cut in four so that the evaluation
\* stays shallow
RECURSIVE divBits(_, _, _, _, _)
divBits(a, b, hi, lo, r) ==
  IF hi < lo THEN [q |-> <<>>, r |-> r]
  ELSE IF hi = lo
  THEN LET r2 == natTrim(<<a[hi]>> \o r)
       IN IF natLess(r2, b) THEN [q |-> <<0>>, r |-> r2]
          ELSE [q |-> <<1>>, r |-> natSub(r2, b)]
  ELSE LET w == (hi - lo + 4) \div 4
           from(i) == IF i < lo THEN lo ELSE i
           p1 == divBits(a, b, hi, hi - w + 1, r)
           p2 == divBits(a, b, hi - w, from(hi - 2 * w + 1), p1.r)
           p3 == divBits(a, b, hi - 2 * w, from(hi - 3 * w + 1), p2.r)
           p4 == divBits(a, b, hi - 3 * w, lo, p3.r)
       IN [q |-> p1.q \o (p2.q \o (p3.q \o p4.q)), r |-> p4.r]

\* quotient and remainder of a by b, b > 0
natDivMod(a, b) ==
  LET d == divBits(a, b, Len(a), 1, <<>>)
      n == Len(d.q)
  IN [q |-> natTrim([i \in 1..n |-> d.q[n + 1 - i]]), r |-> d.r]

Zero == [m |-> <<>>, e |-> 0]

\* m * 2^e with the factors of two moved into the exponent
canon(m, e) ==
  IF m = <<>> THEN Zero
  ELSE LET k == CHOOSE i \in 1..Len(m) : m[i] = 1 /\ \A j \in 1..(i - 1) : m[j] = 0
       IN [m |-> SubSeq(m, k, Len(m)), e |-> e + k - 1]

\* the double nearest to M * 2^e (plus a positive part below the last bit of M
\* when inexact), ties to even
roundNumber(M, e, inexact) ==
  IF Len(M) <= Precision THEN canon(M, e)
  ELSE LET k == Len(M) - Precision
           kept == SubSeq(M, k + 1, Len(M))
           rest == inexact \/ \E i \in 1..(k - 1) : M[i] = 1
           up == M[k] = 1 /\ (rest \/ kept[1] = 1)
       IN canon(IF up THEN natAdd(kept, <<1>>) ELSE kept, e + k)

minExp(x, y) == IF x.e <= y.e THEN x.e ELSE y.e

\* x + y; a zero operand leaves the other as it is
numAdd(x, y) ==
  IF x = Zero THEN y
  ELSE IF y = Zero THEN x
  ELSE LET e == minExp(x, y)
       IN roundNumber(natAdd(natShl(x.m, x.e - e), natShl(y.m, y.e - e)), e, FALSE)

\* x - y for x >= y
numSub(x, y) ==
  IF y = Zero THEN x
  ELSE IF x = y THEN Zero
  ELSE LET e == minExp(x, y)
       IN roundNumber(natSub(natShl(x.m, x.e - e), natShl(y.m, y.e - e)), e, FALSE)

\* x * y
numMul(x, y) ==
  IF x = Zero \/ y = Zero THEN Zero
  ELSE roundNumber(natMul(x.m, y.m), x.e + y.e, FALSE)

\* x / y, y > 0: the quotient is taken to more than Precision + 1 bits
numDiv(x, y) ==
  IF x = Zero THEN Zero
  ELSE IF y.m = <<1>> THEN [m |-> x.m, e |-> x.e - y.e]
  ELSE LET s == Precision + 2 + Len(y.m)
           d == natDivMod(natShl(x.m, s), y.m)
       IN roundNumber(d.q, x.e - y.e - s, d.r # <<>>)

\* x <= y
numLE(x, y) ==
  IF x = y THEN TRUE
  ELSE LET e == minExp(x, y)
       IN ~natLess(natShl(y.m, y.e - e), natShl(x.m, x.e - e))

\* the double of a non-negative integer below 2^Precision
numOf(n) == canon(natOf(n), 0)

(***************************************************************************)
(* The Calculator on JavaScript numbers: the reduce of createBilling with  *)
(* every operation rounded as the code's arithmetic rounds it.             *)
(***************************************************************************)
\* const itemTotal = item.quantity * item.price
numItemTotal(item) == numMul(numOf(item.quantity), numOf(item.price))

\* const itemDiscount = (itemTotal * item.discount) / 100
numItemDiscount(total, item) ==
  numDiv(numMul(total, numOf(item.discount)), numOf(100))

\* the vat taken on the undiscounted total
numItemVat_BeforeDiscount(total, discount, item) ==
  numDiv(numMul(total, numOf(item.vat)), numOf(100))

\* const itemVat = ((itemTotal - itemDiscount) * item.vat) / 100
numItemVat(total, discount, item) ==
  numDiv(numMul(numSub(total, discount), numOf(item.vat)), numOf(100))

\* an accumulator that starts with a grandTotal of 1
numZeroTotals_One ==
  [subTotal |-> Zero, tax |-> Zero, discount |-> Zero, grandTotal |-> numOf(1)]

\* { subTotal: 0, tax: 0, discount: 0, grandTotal: 0 }
numZeroTotals ==
  [subTotal |-> Zero, tax |-> Zero, discount |-> Zero, grandTotal |-> Zero]

RECURSIVE numReduce(_, _)
numReduce(items, acc) ==
  IF items = <<>> THEN acc
  ELSE LET item == Head(items)
           itemTotal_ == numItemTotal(item)
           itemDiscount_ == numItemDiscount(itemTotal_, item)
           itemVat_ == numItemVat(itemTotal_, itemDiscount_, item)
       IN numReduce(Tail(items),
            [subTotal   |-> numAdd(acc.subTotal, itemTotal_),
             tax        |-> numAdd(acc.tax, itemVat_),
             discount   |-> numAdd(acc.discount, itemDiscount_),
             grandTotal |-> numAdd(acc.grandTotal,
                                   numAdd(numSub(itemTotal_, itemDiscount_), itemVat_))])

\* items.reduce(..., calculatedTotals) on numbers
numTotals(items) == numReduce(items, numZeroTotals)

(***************************************************************************)
(* Payment sum and status derivation.                                      *)
(***************************************************************************)
RECURSIVE SumAmounts(_, _)
SumAmounts(pays, ids) ==
  IF ids = {} THEN 0
  ELSE LET p == CHOOSE x \in ids : TRUE
       IN pays[p].amount + SumAmounts(pays, ids \ {p})

\* the aggregate without its $match stage: every payment of the collection
totalPaid_NoMatch(pays, billingId) == SumAmounts(pays, DOMAIN pays)

\* a $match that keeps only the newest payment of the billing
matched_LatestOnly(pays, billingId) ==
  LET m == {p \in DOMAIN pays : pays[p].billing = billingId}
  IN IF m = {} THEN {} ELSE {SetMax(m)}

\* $match: { billing }: the payments of the billing
matched(pays, billingId) == {p \in DOMAIN pays : pays[p].billing = billingId}

\* Payment.aggregate: $match billing, $group $sum amount; 0 when none match
totalPaid(pays, billingId) == SumAmounts(pays, matched(pays, billingId))

\* createPayment's billingStatus
paymentStatus(total, grandTotal) ==
  IF total = grandTotal THEN "paid"
  ELSE IF total > grandTotal THEN "overPaid"
  ELSE "partiallyPaid"

\* a billingStatus that starts from overdue
updateStatus_Overdue(total, grandTotal) ==
  IF total = grandTotal THEN "paid"
  ELSE IF total > grandTotal THEN "overpaid"
  ELSE "overdue"

\* updateBilling's billingStatus
updateStatus(total, grandTotal) ==
  IF total = grandTotal THEN "paid"
  ELSE IF total > grandTotal THEN "overpaid"
  ELSE "partiallyPaid"

(***************************************************************************)
(* State.                                                                  *)
(***************************************************************************)
VARIABLES
  billings,   \* BillingHistory collection: _id -> document
  payments,   \* Payment collection: _id -> document
  nextBid,    \* the _id the next inserted billing gets (ids are never reused)
  nextPid,    \* the _id the next inserted payment gets
  last,       \* the last completed request and its response
  req         \* requests in flight (interleaved specifications): slot -> locals

vars == <<billings, payments, nextBid, nextPid, last, req>>

Response(op, code, billingId) == [op |-> op, code |-> code, billing |-> billingId]

Slots == {1, 2}

Idle == [pc |-> "idle", op |-> "none"]

Init ==
  /\ billings = <<>>
  /\ payments = <<>>
  /\ nextBid = 1
  /\ nextPid = 1
  /\ last = Response("none", 0, 0)
  /\ req = [s \in Slots |-> Idle]

(***************************************************************************)
(* Collection operations.                                                  *)
(***************************************************************************)
\* a lookup that never finds a document
existsBillNumber_None(bills, billNumber) == FALSE

\* BillingHistory.findOne({ billNumber }) finds a document
existsBillNumber(bills, billNumber) ==
  \E b \in DOMAIN bills : bills[b].billNumber = billNumber

\* the document BillingHistory.create stores: schema defaults for status and
\* paidAmount, client taken from the case
\* a create that stores no client
newBillingDoc_NoClient(caseId, billingType, billNumber, items) ==
  LET t == calculatedTotals(items)
  IN [case        |-> caseId,
      client      |-> "none",
      billingType |-> billingType,
      billNumber  |-> billNumber,
      items       |-> items,
      subTotal    |-> t.subTotal,
      tax         |-> t.tax,
      discount    |-> t.discount,
      grandTotal  |-> t.grandTotal,
      paidAmount  |-> 0,
      status      |-> "unpaid"]

\* a create that leaves the aggregates at the schema's defaults
newBillingDoc_Defaults(caseId, billingType, billNumber, items) ==
  [case        |-> caseId,
   client      |-> cases[caseId].client,
   billingType |-> billingType,
   billNumber  |-> billNumber,
   items       |-> items,
   subTotal    |-> 0,
   tax         |-> 0,
   discount    |-> 0,
   grandTotal  |-> 0,
   paidAmount  |-> 0,
   status      |-> "unpaid"]

newBillingDoc(caseId, billingType, billNumber, items) ==
  LET t == calculatedTotals(items)
  IN [case        |-> caseId,
      client      |-> cases[caseId].client,
      billingType |-> billingType,
      billNumber  |-> billNumber,
      items       |-> items,
      subTotal    |-> t.subTotal,
      tax         |-> t.tax,
      discount    |-> t.discount,
      grandTotal  |-> t.grandTotal,
      paidAmount  |-> 0,
      status      |-> "unpaid"]

insert(coll, id, doc) ==
  [i \in DOMAIN coll \cup {id} |-> IF i = id THEN doc ELSE coll[i]]

remove(coll, ids) == [i \in DOMAIN coll \ ids |-> coll[i]]

\* an insert that stores nothing when the bill number is already stored
createBillingDoc_Unique(bills, id, doc) ==
  IF existsBillNumber(bills, doc.billNumber) THEN bills ELSE insert(bills, id, doc)

\* BillingHistory.create: the schema puts no unique index on billNumber
createBillingDoc(bills, id, doc) == insert(bills, id, doc)

\* a delete that removes no payment
deleteMany_None(pays, billingId) == pays

\* Payment.deleteMany({ billing })
deleteMany(pays, billingId) ==
  remove(pays, {p \in DOMAIN pays : pays[p].billing = billingId})

\* calculatedTotals of updateBilling: zeros unless items are given
updateTotals(items) ==
  IF items = Undefined THEN ZeroTotals ELSE calculatedTotals(items.value)

\* the update document of findByIdAndUpdate, applied: undefined keys are
\* stripped, items only when given, totals and status always
updatedBillingDoc(doc, billNumber, items, status) ==
  LET totals == updateTotals(items)
  IN [doc EXCEPT
        !.billNumber = IF billNumber = Undefined THEN @ ELSE billNumber.value,
        !.items      = IF items = Undefined THEN @ ELSE items.value,
        !.subTotal   = totals.subTotal,
        !.tax        = totals.tax,
        !.discount   = totals.discount,
        !.grandTotal = totals.grandTotal,
        !.status     = status]

\* billing.updateOne({ $set: { status } })
setStatus(bills, id, status) ==
  IF id \in DOMAIN bills THEN [bills EXCEPT ![id].status = status] ELSE bills

\* the guard testing items.length instead of items
itemsLocked_NonEmpty(doc, items) ==
  doc.billingType = "timeBased" /\ items # Undefined /\ items.value # <<>>

\* updateBilling refuses items for a time-based billing (items is truthy)
itemsLocked(doc, items) == doc.billingType = "timeBased" /\ items # Undefined

\* the rule min:0 instead of min:0.01
validAmount_MinZero(amount) == amount >= 0

\* amount: required|numeric|min:0.01
validAmount(amount) == amount * 100 >= Scale

(***************************************************************************)
(* Requests handled one at a time: each action is one whole handler.       *)
(***************************************************************************)
Respond(op, code, billingId) ==
  /\ last' = Response(op, code, billingId)
  /\ UNCHANGED <<billings, payments, nextBid, nextPid, req>>

\* if (!billNumber) billNumber = await getNextBillingNumber()
resolveBillNumber(bills, supplied) ==
  IF supplied = Undefined THEN getNextBillingNumber(bills) ELSE supplied.value

createBilling(caseId, billingType, supplied, items) ==
  LET billNumber == resolveBillNumber(billings, supplied)
  IN IF existsBillNumber(billings, billNumber)
     THEN Respond("createBilling", 422, 0)
     ELSE IF caseId \notin DOMAIN cases
     THEN Respond("createBilling", 404, 0)
     ELSE IF items = Undefined \/ castFails(items.value)
                               \/ billingType \notin BillingTypeEnum
     THEN Respond("createBilling", 500, 0)
     ELSE /\ billings' = createBillingDoc(billings, nextBid,
                           newBillingDoc(caseId, billingType, billNumber, items.value))
          /\ nextBid' = nextBid + 1
          /\ last' = Response("createBilling", 201, nextBid)
          /\ UNCHANGED <<payments, nextPid, req>>

updateBilling(id, billNumber, items) ==
  IF id \notin DOMAIN billings
  THEN Respond("updateBilling", 404, 0)
  ELSE IF itemsLocked(billings[id], items)
  THEN Respond("updateBilling", 400, id)
  ELSE IF items # Undefined /\ castFails(items.value)
  THEN Respond("updateBilling", 500, id)
  ELSE LET status == updateStatus(totalPaid(payments, id), updateTotals(items).grandTotal)
       IN IF status \notin StatusEnum
          THEN Respond("updateBilling", 500, id)
          ELSE /\ billings' = [billings EXCEPT
                                 ![id] = updatedBillingDoc(@, billNumber, items, status)]
               /\ last' = Response("updateBilling", 200, id)
               /\ UNCHANGED <<payments, nextBid, nextPid, req>>

deleteBilling(id) ==
  IF id \notin DOMAIN billings
  THEN Respond("deleteBilling", 404, 0)
  ELSE /\ billings' = remove(billings, {id})
       /\ payments' = deleteMany(payments, id)
       /\ last' = Response("deleteBilling", 204, id)
       /\ UNCHANGED <<nextBid, nextPid, req>>

\* a createPayment that stores the payment before it looks the billing up
createPayment_InsertFirst(billingId, amount) ==
  IF ~validAmount(amount)
  THEN Respond("createPayment", 422, 0)
  ELSE LET stored == insert(payments, nextPid, [billing |-> billingId, amount |-> amount])
       IN IF billingId \notin DOMAIN billings
          THEN /\ payments' = stored
               /\ nextPid' = nextPid + 1
               /\ last' = Response("createPayment", 404, 0)
               /\ UNCHANGED <<billings, nextBid, req>>
          ELSE /\ payments' = stored
               /\ billings' = setStatus(billings, billingId,
                                 paymentStatus(totalPaid(stored, billingId),
                                               billings[billingId].grandTotal))
               /\ nextPid' = nextPid + 1
               /\ last' = Response("createPayment", 201, billingId)
               /\ UNCHANGED <<nextBid, req>>

createPayment(billingId, amount) ==
  IF ~validAmount(amount)
  THEN Respond("createPayment", 422, 0)
  ELSE IF billingId \notin DOMAIN billings
  THEN Respond("createPayment", 404, 0)
  ELSE LET stored == insert(payments, nextPid, [billing |-> billingId, amount |-> amount])
           status == paymentStatus(totalPaid(stored, billingId),
                                   billings[billingId].grandTotal)
       IN /\ payments' = stored
          /\ billings' = setStatus(billings, billingId, status)
          /\ nextPid' = nextPid + 1
          /\ last' = Response("createPayment", 201, billingId)
          /\ UNCHANGED <<nextBid, req>>

updatePayment(paymentId, amount) ==
  IF amount # Undefined /\ ~validAmount(amount.value)
  THEN Respond("updatePayment", 422, 0)
  ELSE IF paymentId \notin DOMAIN payments
  THEN Respond("updatePayment", 404, 0)
  ELSE /\ payments' = [payments EXCEPT
                         ![paymentId].amount = IF amount = Undefined THEN @ ELSE amount.value]
       /\ last' = Response("updatePayment", 200, payments[paymentId].billing)
       /\ UNCHANGED <<billings, nextBid, nextPid, req>>

\* a deletePayment that recomputes the parent billing's status
deletePayment_Recompute(paymentId) ==
  IF paymentId \notin DOMAIN payments
  THEN Respond("deletePayment", 404, 0)
  ELSE LET billingId == payments[paymentId].billing
           rest == remove(payments, {paymentId})
       IN /\ payments' = rest
          /\ billings' = setStatus(billings, billingId,
                            IF billingId \in DOMAIN billings
                            THEN paymentStatus(totalPaid(rest, billingId),
                                               billings[billingId].grandTotal)
                            ELSE "unpaid")
          /\ last' = Response("deletePayment", 204, billingId)
          /\ UNCHANGED <<nextBid, nextPid, req>>

deletePayment(paymentId) ==
  IF paymentId \notin DOMAIN payments
  THEN Respond("deletePayment", 404, 0)
  ELSE /\ payments' = remove(payments, {paymentId})
       /\ last' = Response("deletePayment", 204, payments[paymentId].billing)
       /\ UNCHANGED <<billings, nextBid, nextPid, req>>

\* the clients collection of the $lookup in getAllBillings
clients == {"client1"}

\* a read that reports the stored paidAmount as totalPaid
readTotals_Stored(doc, pays, id) ==
  [totalPaid |-> doc.paidAmount, dueAmount |-> doc.grandTotal - doc.paidAmount]

\* totalPaid: the sum of the amounts of the payments whose billing is the
\* record; dueAmount: grandTotal - totalPaid
readTotals(doc, pays, id) ==
  LET found == {p \in DOMAIN pays : pays[p].billing = id}
      total == SumAmounts(pays, found)
  IN [totalPaid |-> total, dueAmount |-> doc.grandTotal - total]

\* the record a read returns: stored fields with the two computed ones
enriched(doc, pays, id) ==
  LET t == readTotals(doc, pays, id)
  IN [billNumber |-> doc.billNumber,
      status     |-> doc.status,
      grandTotal |-> doc.grandTotal,
      totalPaid  |-> t.totalPaid,
      dueAmount  |-> t.dueAmount]

\* getBilling: findById, Payment.find({ billing }), reduce, subtract
getBilling(id) ==
  IF id \notin DOMAIN billings
  THEN Respond("getBilling", 404, 0)
  ELSE /\ last' = [op |-> "getBilling", code |-> 200, billing |-> id,
                   data |-> enriched(billings[id], payments, id)]
       /\ UNCHANGED <<billings, payments, nextBid, nextPid, req>>

\* getAllBillings with an empty query and a page that holds every record: the
\* $unwind stages drop a billing whose case or client is not stored
getAllBillings ==
  LET listed == {b \in DOMAIN billings :
                   /\ billings[b].case \in DOMAIN cases
                   /\ billings[b].client \in clients}
  IN /\ last' = [op |-> "getAllBillings", code |-> 200, billing |-> 0,
                 data |-> [b \in listed |-> enriched(billings[b], payments, b)]]
     /\ UNCHANGED <<billings, payments, nextBid, nextPid, req>>

(***************************************************************************)
(* Specification Spec: every billing and payment operation, one request    *)
(* at a time, bill numbers generated.                                      *)
(***************************************************************************)
BillingIds == 1..MaxBillings

PaymentIds == 1..MaxPayments

CreateBilling ==
  \E r \in GoodBillingRequests({Undefined}) \cup BadBillingRequests :
    /\ createBilling(r.case, r.billingType, r.billNumber, r.items)
    /\ nextBid' <= MaxBillings + 1

UpdateBilling ==
  \E id \in BillingIds, i \in Optional(ItemLists \cup {<<ItemC>>}) :
    updateBilling(id, Undefined, i)

DeleteBilling == \E id \in BillingIds : deleteBilling(id)

CreatePayment ==
  \E b \in BillingIds, a \in PaymentAmounts :
    /\ createPayment(b, a)
    /\ nextPid' <= MaxPayments + 1

UpdatePayment ==
  \E p \in PaymentIds, a \in Optional(PaymentAmounts) : updatePayment(p, a)

DeletePayment == \E p \in PaymentIds : deletePayment(p)

Next ==
  \/ CreateBilling
  \/ UpdateBilling
  \/ DeleteBilling
  \/ CreatePayment
  \/ UpdatePayment
  \/ DeletePayment

Spec == Init /\ [][Next]_vars

(***************************************************************************)
(* Specification SpecPayments: billings are created and paid, nothing      *)
(* else.                                                                   *)
(***************************************************************************)
\* billing records created in a pay-only history
MaxPaidBillings == 1
\* payments recorded in a pay-only history
MaxLedger == 3

LedgerBilling ==
  \E r \in GoodBillingRequests({Undefined}) \cup BadBillingRequests :
    /\ createBilling(r.case, r.billingType, r.billNumber, r.items)
    /\ nextBid' <= MaxPaidBillings + 1

LedgerPayment ==
  \E b \in BillingIds, a \in PaymentAmounts :
    /\ createPayment(b, a)
    /\ nextPid' <= MaxLedger + 1

NextPayments == LedgerBilling \/ LedgerPayment

SpecPayments == Init /\ [][NextPayments]_vars

(***************************************************************************)
(* Specification SpecLedger: createBilling, createPayment and              *)
(* updateBilling, one request at a time.                                   *)
(***************************************************************************)
NextLedger == CreateBilling \/ CreatePayment \/ UpdateBilling

SpecLedger == Init /\ [][NextLedger]_vars

(***************************************************************************)
(* Specification SpecNumbers: createBilling and updateBilling with         *)
(* generated and caller-supplied bill numbers.                             *)
(***************************************************************************)
NumberedCreate ==
  \E r \in GoodBillingRequests(Optional(SuppliedNumbers)) :
    /\ createBilling(r.case, r.billingType, r.billNumber, r.items)
    /\ nextBid' <= MaxBillings + 1

NumberedUpdate ==
  \E id \in BillingIds, n \in Optional(SuppliedNumbers) : updateBilling(id, n, Undefined)

NextNumbers == NumberedCreate \/ NumberedUpdate

SpecNumbers == Init /\ [][NextNumbers]_vars

(***************************************************************************)
(* Specification SpecSequence: createBilling without a caller-supplied     *)
(* bill number, from the empty collection, no deletion.                    *)
(***************************************************************************)
\* billing records created in a generated-number history
MaxSequence == 4

SequenceCreate ==
  \E r \in GoodBillingRequests({Undefined}) \cup BadBillingRequests :
    /\ createBilling(r.case, r.billingType, r.billNumber, r.items)
    /\ nextBid' <= MaxSequence + 1

NextSequence == SequenceCreate

SpecSequence == Init /\ [][NextSequence]_vars

(***************************************************************************)
(* Specification SpecRecycle: createBilling without a caller-supplied bill *)
(* number and deleteBilling, one request at a time.                        *)
(***************************************************************************)
RecycleDelete == \E id \in 1..MaxSequence : deleteBilling(id)

NextRecycle == SequenceCreate \/ RecycleDelete

SpecRecycle == Init /\ [][NextRecycle]_vars

(***************************************************************************)
(* Specification SpecCalculator: the Calculator as a function.  The        *)
(* initial states hold the item lists; the one action runs the reduce over *)
(* the list of its slot.                                                   *)
(***************************************************************************)
\* items of a list handed to the Calculator
MaxItems == 3

LineOne == [quantity |-> 1, price |-> 1, discount |-> 0, vat |-> 0]

LineTwo == [quantity |-> 1, price |-> 2, discount |-> 10, vat |-> 15]

LineThree == [quantity |-> 1, price |-> 1, discount |-> 10, vat |-> 0]

LineExample == [quantity |-> 2, price |-> 100, discount |-> 10, vat |-> 12]

CalcItems == {LineOne, LineTwo, LineThree, LineExample}

CalcLists == UNION {[1..n -> CalcItems] : n \in 0..MaxItems}

InitCalculator ==
  /\ billings = <<>>
  /\ payments = <<>>
  /\ nextBid = 1
  /\ nextPid = 1
  /\ last = Response("none", 0, 0)
  /\ \E items \in CalcLists :
       req = [s \in Slots |->
                IF s = 1 THEN [pc |-> "input", op |-> "calculate", items |-> items]
                ELSE Idle]

calculate(s) ==
  /\ req[s].op = "calculate" /\ req[s].pc = "input"
  /\ req' = [req EXCEPT ![s] = [pc |-> "done", op |-> "calculate",
                                 items |-> req[s].items,
                                 totals |-> numTotals(req[s].items)]]
  /\ UNCHANGED <<billings, payments, nextBid, nextPid, last>>

NextCalculator == \E s \in Slots : calculate(s)

SpecCalculator == InitCalculator /\ [][NextCalculator]_vars

(***************************************************************************)
(* Specification SpecRead: billings of grand total 500 are created, paid   *)
(* and read; payments are changed and deleted, which leaves the stored     *)
(* status behind the payments.                                             *)
(***************************************************************************)
\* billing records created in a history with reads
MaxReadBillings == 2
\* payment records created in a history with reads
MaxReadPayments == 2

\* one line of 500
ItemRead == [quantity |-> 1, price |-> 500, discount |-> 0, vat |-> 0, amount |-> 500 * Scale]

ReadAmounts == {200 * Scale, 500 * Scale}

ReadCreateBilling ==
  /\ createBilling(StoredCase, "oneTime", Undefined, Given(<<ItemRead>>))
  /\ nextBid' <= MaxReadBillings + 1

ReadCreatePayment ==
  \E b \in 1..MaxReadBillings, a \in ReadAmounts :
    /\ createPayment(b, a)
    /\ nextPid' <= MaxReadPayments + 1

ReadUpdatePayment ==
  \E p \in 1..MaxReadPayments, a \in ReadAmounts : updatePayment(p, Given(a))

ReadDeletePayment == \E p \in 1..MaxReadPayments : deletePayment(p)

GetBilling == \E id \in 1..MaxReadBillings : getBilling(id)

NextRead ==
  \/ ReadCreateBilling
  \/ ReadCreatePayment
  \/ ReadUpdatePayment
  \/ ReadDeletePayment
  \/ GetBilling
  \/ getAllBillings

SpecRead == Init /\ [][NextRead]_vars

(***************************************************************************)
(* Specification SpecCases: createBilling for a stored case and for a case *)
(* that is not stored, with generated and caller-supplied bill numbers.    *)
(***************************************************************************)
CaseRequests ==
  GoodBillingRequests(Optional(SuppliedNumbers))
  \cup { BillingRequest(MissingCase, "oneTime", n, Given(<<>>)) :
           n \in Optional(SuppliedNumbers) }

CaseCreate ==
  \E r \in CaseRequests :
    /\ createBilling(r.case, r.billingType, r.billNumber, r.items)
    /\ nextBid' <= MaxBillings + 1

NextCases == CaseCreate

SpecCases == Init /\ [][NextCases]_vars

(***************************************************************************)
(* Specification SpecGenerator: the sequence generators as functions of    *)
(* the stored values of their field.  The initial states hold the stored   *)
(* values; the one action runs the generator of the slot's field.          *)
(***************************************************************************)
\* records stored when the generator runs
MaxStored == 2

\* stored values of the field: null, digit-free, generated, with two digit
\* runs, six nines, the largest 32-bit int, a longer digit run
StoredValues ==
  { Null,
    <<"X">>,
    <<"B", "I", "L", "L", "-", "0", "0", "0", "0", "0", "1">>,
    <<"A", "1", "2", "B", "3", "4">>,
    <<"9", "9", "9", "9", "9", "9">>,
    <<"2", "1", "4", "7", "4", "8", "3", "6", "4", "7">>,
    <<"I", "N", "V", "-", "3", "0", "0", "0", "0", "0", "0", "0", "0", "0">> }

GeneratorFields == {"billNumber", "caseNumber"}

InitGenerator ==
  /\ billings = <<>>
  /\ payments = <<>>
  /\ nextBid = 1
  /\ nextPid = 1
  /\ last = Response("none", 0, 0)
  /\ \E n \in 0..MaxStored :
       \E values \in [1..n -> StoredValues], field \in GeneratorFields :
         req = [s \in Slots |->
                  IF s = 1
                  THEN [pc |-> "input", op |-> "generate", field |-> field, values |-> values]
                  ELSE Idle]

generate(s) ==
  /\ req[s].op = "generate" /\ req[s].pc = "input"
  /\ LET values == req[s].values
         number == IF req[s].field = "billNumber"
                   THEN getNextBillingNumber([i \in DOMAIN values |-> [billNumber |-> values[i]]])
                   ELSE getNextCaseNumber([i \in DOMAIN values |-> [caseNumber |-> values[i]]])
     IN req' = [req EXCEPT ![s] = [pc |-> "done", op |-> "generate",
                                    field |-> req[s].field, values |-> values,
                                    number |-> number]]
  /\ UNCHANGED <<billings, payments, nextBid, nextPid, last>>

NextGenerator == \E s \in Slots : generate(s)

SpecGenerator == InitGenerator /\ [][NextGenerator]_vars

(***************************************************************************)
(* Specification SpecSupplied: createBilling one request at a time, with   *)
(* generated bill numbers and caller-supplied ones of several shapes.      *)
(***************************************************************************)
\* caller-supplied bill numbers: the generator's own format, digits only, no
\* digit, two digit runs, the largest 32-bit int and its successor
ShapedNumbers ==
  { <<"B", "I", "L", "L", "-", "0", "0", "0", "0", "0", "2">>,
    <<"7">>,
    <<"X">>,
    <<"A", "1", "2", "B", "3", "4">>,
    <<"B", "I", "L", "L", "-", "2", "1", "4", "7", "4", "8", "3", "6", "4", "7">>,
    <<"B", "I", "L", "L", "-", "2", "1", "4", "7", "4", "8", "3", "6", "4", "8">> }

SuppliedCreate ==
  \E n \in Optional(ShapedNumbers), i \in ItemLists :
    /\ createBilling(StoredCase, "oneTime", n, Given(i))
    /\ nextBid' <= MaxBillings + 1

NextSupplied == SuppliedCreate

SpecSupplied == Init /\ [][NextSupplied]_vars

(***************************************************************************)
(* The HasPermission middleware and Specification SpecGuard: createBilling *)
(* and createPayment behind their route guards, one request at a time.     *)
(***************************************************************************)
\* the Permission collection: _id -> document
permissions ==
  [p \in {"perm1", "perm2", "perm3"} |->
     [name |-> CASE p = "perm1" -> "billing.create"
                 [] p = "perm2" -> "payment.create"
                 [] OTHER       -> "billing.read"]]

\* the Role collection: a role with both create permissions, a deleted role
\* with both, a role that may only read, a role whose one permission is not
\* stored, a role that may only create payments
roles ==
  [r \in {"role1", "role2", "role3", "role4", "role5"} |->
     CASE r = "role1" -> [permissions |-> <<"perm1", "perm2">>, deleted |-> FALSE]
       [] r = "role2" -> [permissions |-> <<"perm1", "perm2">>, deleted |-> TRUE]
       [] r = "role3" -> [permissions |-> <<"perm3">>, deleted |-> FALSE]
       [] r = "role4" -> [permissions |-> <<"perm9">>, deleted |-> FALSE]
       [] OTHER       -> [permissions |-> <<"perm3", "perm2">>, deleted |-> FALSE]]

\* req.user: the role type and the role id; "role9" is not stored
Users ==
  [roleType : {"roleBasedUser"}, role : DOMAIN roles \cup {"role9"}]
  \cup [roleType : {"superAdmin"}, role : {"role2", "role9"}]

\* populate({ path: "permissions" }): the stored documents of the ids, in order
populate(ids) ==
  LET stored == SelectSeq(ids, LAMBDA i : i \in DOMAIN permissions)
  IN [k \in 1..Len(stored) |-> permissions[stored[k]]]

\* Role.findOne({ _id: user.role, deleted: false }).populate(...): <<role>>,
\* or <<>> when there is no such role
findRole(id) ==
  IF id \in DOMAIN roles /\ ~roles[id].deleted
  THEN <<[roles[id] EXCEPT !.permissions = populate(@)]>>
  ELSE <<>>

\* a guard that does not look at the deleted flag
HasPermission_Deleted(permissionName, user) ==
  IF user.roleType = "superAdmin" THEN "next"
  ELSE IF user.role \notin DOMAIN roles THEN "403"
  ELSE IF \E i \in 1..Len(populate(roles[user.role].permissions)) :
            populate(roles[user.role].permissions)[i].name = permissionName
       THEN "next"
       ELSE "403"

\* the middleware HasPermission(permissionName) for req.user: "next" when the
\* handler is called, "403" when an AppError is thrown
HasPermission(permissionName, user) ==
  IF user.roleType = "superAdmin" THEN "next"
  ELSE LET role == findRole(user.role)
       IN IF role = <<>> THEN "403"
          ELSE IF \E i \in 1..Len(role[1].permissions) :
                    role[1].permissions[i].name = permissionName
               THEN "next"
               ELSE "403"

\* route.post("/", HasPermission("billing.create"), createBilling)
postBilling(user, r) ==
  IF HasPermission("billing.create", user) = "next"
  THEN createBilling(r.case, r.billingType, r.billNumber, r.items)
  ELSE Respond("createBilling", 403, 0)

\* route.post("/", HasPermission("payment.create"), createPayment)
postPayment(user, billingId, amount) ==
  IF HasPermission("payment.create", user) = "next"
  THEN createPayment(billingId, amount)
  ELSE Respond("createPayment", 403, 0)

GuardRequests == GoodBillingRequests({Undefined})

PostBilling ==
  \E u \in Users, r \in GuardRequests :
    /\ postBilling(u, r)
    /\ nextBid' <= MaxBillings + 1

PostPayment ==
  \E u \in Users, b \in BillingIds, a \in PaymentAmounts :
    /\ postPayment(u, b, a)
    /\ nextPid' <= MaxPayments + 1

NextGuard == PostBilling \/ PostPayment

SpecGuard == Init /\ [][NextGuard]_vars

(***************************************************************************)
(* Specification SpecRace: createBilling and createPayment requests in     *)
(* two slots, interleaved at their awaited database calls.  A slot keeps   *)
(* the locals of its request; a finished request stays in its slot until   *)
(* the next one starts there.                                              *)
(***************************************************************************)
\* bodies of the interleaved createBilling requests
RaceBillingRequests ==
  { BillingRequest(StoredCase, "oneTime", Undefined, Given(<<ItemA, ItemB>>)),
    BillingRequest(StoredCase, "oneTime", Undefined, Given(<<>>)) }

\* amounts of the interleaved createPayment requests
RaceAmounts == {1 * Scale, 2 * Scale}

Free(s) == req[s].pc \in {"idle", "done"}

InFlight(op) == Cardinality({s \in Slots : req[s].op = op /\ ~Free(s)})

Finish(s, code) == req' = [req EXCEPT ![s].pc = "done", ![s].code = code]

\* request received; the validator has passed
startCreateBilling(s, body) ==
  /\ Free(s)
  /\ nextBid + InFlight("createBilling") <= MaxBillings
  /\ req' = [req EXCEPT ![s] = [pc |-> "number", op |-> "createBilling", body |-> body,
                                 billNumber |-> Null, id |-> 0, code |-> 0]]
  /\ UNCHANGED <<billings, payments, nextBid, nextPid, last>>

\* if (!billNumber) billNumber = await getNextBillingNumber()
resolveNumber(s) ==
  /\ req[s].op = "createBilling" /\ req[s].pc = "number"
  /\ req' = [req EXCEPT ![s].pc = "check",
                        ![s].billNumber = IF req[s].body.billNumber = Undefined
                                          THEN getNextBillingNumber(billings)
                                          ELSE req[s].body.billNumber.value]
  /\ UNCHANGED <<billings, payments, nextBid, nextPid, last>>

\* await BillingHistory.findOne({ billNumber })
checkExisting(s) ==
  /\ req[s].op = "createBilling" /\ req[s].pc = "check"
  /\ IF existsBillNumber(billings, req[s].billNumber)
     THEN Finish(s, 422)
     ELSE req' = [req EXCEPT ![s].pc = "case"]
  /\ UNCHANGED <<billings, payments, nextBid, nextPid, last>>

\* await Case.findById(caseId), then the reduce over items
findCase(s) ==
  /\ req[s].op = "createBilling" /\ req[s].pc = "case"
  /\ IF req[s].body.case \notin DOMAIN cases
     THEN Finish(s, 404)
     ELSE IF req[s].body.items = Undefined
     THEN Finish(s, 500)
     ELSE req' = [req EXCEPT ![s].pc = "create"]
  /\ UNCHANGED <<billings, payments, nextBid, nextPid, last>>

\* await BillingHistory.create(...)
insertBilling(s) ==
  /\ req[s].op = "createBilling" /\ req[s].pc = "create"
  /\ IF castFails(req[s].body.items.value)
          \/ req[s].body.billingType \notin BillingTypeEnum
     THEN /\ Finish(s, 500)
          /\ UNCHANGED <<billings, nextBid>>
     ELSE /\ billings' = createBillingDoc(billings, nextBid,
                           newBillingDoc(req[s].body.case, req[s].body.billingType,
                                         req[s].billNumber, req[s].body.items.value))
          /\ nextBid' = nextBid + 1
          /\ req' = [req EXCEPT ![s].pc = "done", ![s].code = 201, ![s].id = nextBid]
  /\ UNCHANGED <<payments, nextPid, last>>

\* request received; the validator has passed
startCreatePayment(s, billingId, amount) ==
  /\ Free(s)
  /\ validAmount(amount)
  /\ nextPid + InFlight("createPayment") <= MaxPayments
  /\ req' = [req EXCEPT ![s] = [pc |-> "find", op |-> "createPayment",
                                 billing |-> billingId, amount |-> amount,
                                 grandTotal |-> 0, id |-> 0, seen |-> {},
                                 total |-> 0, status |-> "none", code |-> 0]]
  /\ UNCHANGED <<billings, payments, nextBid, nextPid, last>>

\* const billing = await BillingHistory.findById(billingId)
findBilling(s) ==
  /\ req[s].op = "createPayment" /\ req[s].pc = "find"
  /\ IF req[s].billing \notin DOMAIN billings
     THEN Finish(s, 404)
     ELSE req' = [req EXCEPT ![s].pc = "insert",
                             ![s].grandTotal = billings[req[s].billing].grandTotal]
  /\ UNCHANGED <<billings, payments, nextBid, nextPid, last>>

\* await Payment.create(...)
insertPayment(s) ==
  /\ req[s].op = "createPayment" /\ req[s].pc = "insert"
  /\ payments' = insert(payments, nextPid,
                        [billing |-> req[s].billing, amount |-> req[s].amount])
  /\ nextPid' = nextPid + 1
  /\ req' = [req EXCEPT ![s].pc = "sum", ![s].id = nextPid]
  /\ UNCHANGED <<billings, nextBid, last>>

\* await Payment.aggregate(...), then the status from the total and the
\* grandTotal of the document found at the start
sumPayments(s) ==
  /\ req[s].op = "createPayment" /\ req[s].pc = "sum"
  /\ LET total == totalPaid(payments, req[s].billing)
     IN req' = [req EXCEPT ![s].pc = "write",
                           ![s].seen = matched(payments, req[s].billing),
                           ![s].total = total,
                           ![s].status = paymentStatus(total, req[s].grandTotal)]
  /\ UNCHANGED <<billings, payments, nextBid, nextPid, last>>

\* await billing.updateOne({ $set: { status } })
writeStatus(s) ==
  /\ req[s].op = "createPayment" /\ req[s].pc = "write"
  /\ billings' = setStatus(billings, req[s].billing, req[s].status)
  /\ Finish(s, 201)
  /\ UNCHANGED <<payments, nextBid, nextPid, last>>

RaceCreateBilling ==
  \E s \in Slots :
    \/ \E body \in RaceBillingRequests : startCreateBilling(s, body)
    \/ resolveNumber(s)
    \/ checkExisting(s)
    \/ findCase(s)
    \/ insertBilling(s)

RaceCreatePayment ==
  \E s \in Slots :
    \/ \E b \in BillingIds, a \in RaceAmounts : startCreatePayment(s, b, a)
    \/ findBilling(s)
    \/ insertPayment(s)
    \/ sumPayments(s)
    \/ writeStatus(s)

NextRace == RaceCreateBilling \/ RaceCreatePayment

SpecRace == Init /\ [][NextRace]_vars

(***************************************************************************)
(* Specification SpecInterleaved: createPayment, updateBilling and         *)
(* deleteBilling requests in two slots, interleaved at their awaited       *)
(* database calls.  Billings are created one request at a time.            *)
(***************************************************************************)
\* the bodies of the interleaved updateBilling requests
InterleavedItems == {<<ItemA>>, <<ItemA, ItemB>>}

InterleavedCreateBilling ==
  /\ \A s \in Slots : Free(s)
  /\ createBilling(StoredCase, "oneTime", Undefined, Given(<<ItemA, ItemB>>))
  /\ nextBid' <= MaxBillings + 1

\* request received; SimpleValidator has passed
startUpdateBilling(s, id, items) ==
  /\ Free(s)
  /\ req' = [req EXCEPT ![s] = [pc |-> "find", op |-> "updateBilling", billing |-> id,
                                 items |-> items, total |-> 0, status |-> "none",
                                 code |-> 0]]
  /\ UNCHANGED <<billings, payments, nextBid, nextPid, last>>

\* const billing = await BillingHistory.findById(req.params.id), then the
\* time-based guard and the reduce over items
findForUpdate(s) ==
  /\ req[s].op = "updateBilling" /\ req[s].pc = "find"
  /\ IF req[s].billing \notin DOMAIN billings
     THEN Finish(s, 404)
     ELSE IF itemsLocked(billings[req[s].billing], req[s].items)
     THEN Finish(s, 400)
     ELSE req' = [req EXCEPT ![s].pc = "sum"]
  /\ UNCHANGED <<billings, payments, nextBid, nextPid, last>>

\* await Payment.aggregate(...), then the status from the total and the new
\* grandTotal
sumForUpdate(s) ==
  /\ req[s].op = "updateBilling" /\ req[s].pc = "sum"
  /\ LET total == totalPaid(payments, req[s].billing)
     IN req' = [req EXCEPT ![s].pc = "write",
                           ![s].total = total,
                           ![s].status = updateStatus(total,
                                           updateTotals(req[s].items).grandTotal)]
  /\ UNCHANGED <<billings, payments, nextBid, nextPid, last>>

\* await BillingHistory.findByIdAndUpdate(..., { runValidators: true }): the
\* update is validated before the query runs; no stored document, no write
writeUpdate(s) ==
  /\ req[s].op = "updateBilling" /\ req[s].pc = "write"
  /\ IF (req[s].items # Undefined /\ castFails(req[s].items.value))
          \/ req[s].status \notin StatusEnum
     THEN /\ Finish(s, 500)
          /\ UNCHANGED billings
     ELSE /\ billings' =
               IF req[s].billing \in DOMAIN billings
               THEN [billings EXCEPT ![req[s].billing] =
                       updatedBillingDoc(@, Undefined, req[s].items, req[s].status)]
               ELSE billings
          /\ Finish(s, 200)
  /\ UNCHANGED <<payments, nextBid, nextPid, last>>

\* request received
startDeleteBilling(s, id) ==
  /\ Free(s)
  /\ req' = [req EXCEPT ![s] = [pc |-> "delete", op |-> "deleteBilling", billing |-> id,
                                 code |-> 0]]
  /\ UNCHANGED <<billings, payments, nextBid, nextPid, last>>

\* const billing = await BillingHistory.findByIdAndDelete(req.params.id)
findByIdAndDelete(s) ==
  /\ req[s].op = "deleteBilling" /\ req[s].pc = "delete"
  /\ IF req[s].billing \notin DOMAIN billings
     THEN /\ Finish(s, 404)
          /\ UNCHANGED billings
     ELSE /\ billings' = remove(billings, {req[s].billing})
          /\ req' = [req EXCEPT ![s].pc = "payments"]
  /\ UNCHANGED <<payments, nextBid, nextPid, last>>

\* await Payment.deleteMany({ billing: billing._id })
deletePayments(s) ==
  /\ req[s].op = "deleteBilling" /\ req[s].pc = "payments"
  /\ payments' = deleteMany(payments, req[s].billing)
  /\ Finish(s, 204)
  /\ UNCHANGED <<billings, nextBid, nextPid, last>>

InterleavedUpdateBilling ==
  \E s \in Slots :
    \/ \E id \in BillingIds, i \in InterleavedItems : startUpdateBilling(s, id, Given(i))
    \/ findForUpdate(s)
    \/ sumForUpdate(s)
    \/ writeUpdate(s)

InterleavedDeleteBilling ==
  \E s \in Slots :
    \/ \E id \in BillingIds : startDeleteBilling(s, id)
    \/ findByIdAndDelete(s)
    \/ deletePayments(s)

NextInterleaved ==
  \/ InterleavedCreateBilling
  \/ RaceCreatePayment
  \/ InterleavedUpdateBilling
  \/ InterleavedDeleteBilling

SpecInterleaved == Init /\ [][NextInterleaved]_vars

(***************************************************************************)
(* Properties.                                                             *)
(***************************************************************************)
\* the sum of the amounts of the payments stored for billing b
PaidSum(b) ==
  LET ids == {p \in DOMAIN payments : payments[p].billing = b}
      f[S \in SUBSET ids] ==
        IF S = {} THEN 0
        ELSE LET p == CHOOSE x \in S : TRUE IN payments[p].amount + f[S \ {p}]
  IN f[ids]

\* the derivation createPayment is specified to apply
PaymentDerivation(sum, grandTotal) ==
  IF sum = grandTotal THEN "paid"
  ELSE IF sum > grandTotal THEN "overPaid"
  ELSE "partiallyPaid"

\* the status derivation of the specification, unpaid included
StatusDerivation(sum, grandTotal) ==
  IF sum = grandTotal THEN "paid"
  ELSE IF sum > grandTotal THEN "overPaid"
  ELSE IF sum > 0 THEN "partiallyPaid"
  ELSE "unpaid"

\* C1: after a successful createPayment the parent billing's stored status is
\* the derivation over the sum of all payments stored for that billing and its
\* stored grandTotal: paid if equal, overPaid if greater, partiallyPaid otherwise.
C1_StatusFromAllPayments ==
  (last.op = "createPayment" /\ last.code = 201) =>
    /\ last.billing \in DOMAIN billings
    /\ billings[last.billing].status =
         PaymentDerivation(PaidSum(last.billing), billings[last.billing].grandTotal)

\* a second payment has completed a billing of grandTotal 3
C1_Witness ==
  /\ last.op = "createPayment" /\ last.code = 201
  /\ last.billing \in DOMAIN billings
  /\ billings[last.billing].grandTotal = 3 * Scale
  /\ billings[last.billing].status = "paid"
  /\ Cardinality({p \in DOMAIN payments : payments[p].billing = last.billing}) = 2

\* C2: after a successful updateBilling the stored status is the derivation
\* over the sum of the recorded payments and the new grandTotal: paid, overPaid,
\* partiallyPaid when 0 < sum < grandTotal, unpaid when the sum is 0.
C2_UpdateStatusDerived ==
  (last.op = "updateBilling" /\ last.code = 200) =>
    billings[last.billing].status =
      StatusDerivation(PaidSum(last.billing), billings[last.billing].grandTotal)

\* the forward order of the statuses
StatusRank(status) ==
  CASE status = "unpaid" -> 0
    [] status = "partiallyPaid" -> 1
    [] status = "paid" -> 2
    [] status = "overPaid" -> 3
    [] OTHER -> 4

\* C3: for a billing of fixed grandTotal G > 0 that only receives payments, the
\* status is unpaid while nothing is paid, partiallyPaid while 0 < P < G, paid
\* exactly when P = G, overPaid once P > G, and no step moves it backward.
C3_StatusForward ==
  /\ [](\A b \in DOMAIN billings :
          billings[b].grandTotal > 0 =>
            billings[b].status = StatusDerivation(PaidSum(b), billings[b].grandTotal))
  /\ [][\A b \in DOMAIN billings :
          billings[b].grandTotal > 0 =>
            /\ b \in DOMAIN billings'
            /\ StatusRank(billings'[b].status) >= StatusRank(billings[b].status)]_vars

\* three payments have taken a billing of grandTotal 2 to overPaid
C3_Witness ==
  \E b \in DOMAIN billings :
    /\ billings[b].grandTotal = 2 * Scale
    /\ billings[b].status = "overPaid"
    /\ Cardinality({p \in DOMAIN payments : payments[p].billing = b}) = 3
    /\ last = Response("createPayment", 201, b)

\* C4: updateBilling with items on a stored time-based billing responds with
\* the invalid-operation error and changes no stored record.
C4_TimeBasedItemsRejected ==
  [][\A id \in DOMAIN billings, n \in Optional(SuppliedNumbers), i \in ItemLists :
       (billings[id].billingType = "timeBased" /\ updateBilling(id, n, Given(i))) =>
         /\ last' = Response("updateBilling", 400, id)
         /\ billings' = billings
         /\ payments' = payments]_vars

\* an items patch on a time-based billing has been refused
C4_Witness ==
  /\ last.op = "updateBilling" /\ last.code = 400
  /\ last.billing \in DOMAIN billings
  /\ billings[last.billing].billingType = "timeBased"
  /\ billings[last.billing].items = <<ItemA>>
  /\ billings[last.billing].grandTotal = 2 * Scale

\* C5: each stored billing's subTotal, discount, tax and grandTotal are the
\* Calculator's result over its stored items.
C5_AggregatesMatchItems ==
  \A b \in DOMAIN billings :
    LET t == calculatedTotals(billings[b].items)
    IN /\ billings[b].subTotal = t.subTotal
       /\ billings[b].discount = t.discount
       /\ billings[b].tax = t.tax
       /\ billings[b].grandTotal = t.grandTotal

\* C6: with createBilling, createPayment and updateBilling only, each stored
\* billing's status is the derivation over the sum of its payments and its
\* grandTotal.  Stated for the billings of grandTotal > 0; the claim adds those
\* of grandTotal 0, which createBilling stores unpaid.
C6_StatusInvariant ==
  \A b \in DOMAIN billings :
    billings[b].grandTotal > 0 =>
      billings[b].status = StatusDerivation(PaidSum(b), billings[b].grandTotal)

\* C7: no two stored billing records have the same billNumber.
C7_BillNumberUnique ==
  \A a, b \in DOMAIN billings :
    a # b => billings[a].billNumber # billings[b].billNumber

\* a createBilling request in slot s has responded 201
Created(s) == req[s].op = "createBilling" /\ req[s].pc = "done" /\ req[s].code = 201

\* C8: nothing between the scan and the insert keeps two interleaved
\* createBilling requests apart: when both have computed the same bill number
\* and both have responded 201, two distinct stored billings carry that number.
C8_SameNumberBothStored ==
  \A s, t \in Slots :
    (s # t /\ Created(s) /\ Created(t) /\ req[s].billNumber = req[t].billNumber) =>
      /\ req[s].id # req[t].id
      /\ req[s].id \in DOMAIN billings /\ req[t].id \in DOMAIN billings
      /\ billings[req[s].id].billNumber = req[s].billNumber
      /\ billings[req[t].id].billNumber = req[s].billNumber

\* two requests without a supplied number have both stored BILL-000001
C8_Witness ==
  /\ Created(1) /\ Created(2)
  /\ req[1].body.billNumber = Undefined /\ req[2].body.billNumber = Undefined
  /\ DOMAIN billings = {1, 2}
  /\ billings[1].billNumber = <<"B", "I", "L", "L", "-", "0", "0", "0", "0", "0", "1">>
  /\ billings[2].billNumber = billings[1].billNumber

\* a createPayment request in slot s has read its payment total
Summed(s) == req[s].op = "createPayment" /\ req[s].pc \in {"write", "done"} /\ req[s].id # 0

\* two requests on one billing have both read their totals
BothSummed(s, t) ==
  s # t /\ Summed(s) /\ Summed(t) /\ req[s].billing = req[t].billing

\* the total read in slot s omits the payment of slot t
Omits(s, t) == req[t].id \notin req[s].seen

\* both requests have responded, the two payments together equal grandTotal
\* and the stored status is partiallyPaid
MissedPaid(s, t) ==
  /\ BothSummed(s, t)
  /\ req[s].pc = "done" /\ req[t].pc = "done"
  /\ req[s].billing \in DOMAIN billings
  /\ req[s].amount + req[t].amount = billings[req[s].billing].grandTotal
  /\ PaidSum(req[s].billing) = billings[req[s].billing].grandTotal
  /\ billings[req[s].billing].status = "partiallyPaid"

\* C9 as claimed: when two interleaved createPayment requests miss the paid
\* transition, both have read a total that omits the other's payment and both
\* have computed partiallyPaid.
C9_BothReadStale ==
  \A s, t \in Slots :
    MissedPaid(s, t) =>
      /\ Omits(s, t) /\ Omits(t, s)
      /\ req[s].status = "partiallyPaid" /\ req[t].status = "partiallyPaid"

\* C9 as amended: of two createPayment requests on one billing that have both
\* read their totals, at most one total omits the other's payment (each
\* request inserts before it sums), so at most one computes from a stale total.
C9_AtMostOneStale ==
  \A s, t \in Slots :
    BothSummed(s, t) =>
      /\ ~(Omits(s, t) /\ Omits(t, s))
      /\ req[s].id \in req[s].seen

\* the request that read the stale total wrote last: the status stays
\* partiallyPaid although the two payments equal grandTotal
C9_Witness ==
  /\ MissedPaid(1, 2)
  /\ Omits(1, 2) /\ ~Omits(2, 1)
  /\ req[1].status = "partiallyPaid" /\ req[2].status = "paid"

\* C10: the k-th createBilling without a supplied number, from the empty
\* collection and without deletions, stores BILL-00000k.
C10_SequentialNumbers ==
  \A b \in DOMAIN billings :
    /\ b <= 9
    /\ billings[b].billNumber =
         <<"B", "I", "L", "L", "-", "0", "0", "0", "0", "0", DigitChars[b + 1]>>

\* four billings have been numbered in call order
C10_Witness ==
  /\ DOMAIN billings = 1..4
  /\ billings[4].billNumber = <<"B", "I", "L", "L", "-", "0", "0", "0", "0", "0", "4">>
  /\ last = Response("createBilling", 201, 4)

\* C11: generated bill numbers are strictly increasing over the whole history
\* of createBilling and deleteBilling, deleted billings included.  Ids are given
\* in creation order and never reused and every suffix is at least 1, so the
\* k-th created billing (its id is k) carries a suffix of at least k.
C11_NumbersNeverReused ==
  \A b \in DOMAIN billings : numericPart(billings[b].billNumber) >= b

\* C12: a createBilling whose resolved billNumber (supplied, or generated when
\* none is supplied) is the billNumber of a stored billing responds with the
\* conflict error (422) and leaves both collections unchanged.
C12_ConflictRejected ==
  [][\A r \in GoodBillingRequests(Optional(SuppliedNumbers)) :
       ( /\ createBilling(r.case, r.billingType, r.billNumber, r.items)
         /\ \E b \in DOMAIN billings :
              billings[b].billNumber = resolveBillNumber(billings, r.billNumber) )
       => /\ last' = Response("createBilling", 422, 0)
          /\ billings' = billings
          /\ payments' = payments
          /\ nextBid' = nextBid]_vars

\* a createBilling was refused for its number while one billing is stored
C12_Witness ==
  /\ last = Response("createBilling", 422, 0)
  /\ Cardinality(DOMAIN billings) = 1

C14_PaymentEditFrame ==
  [][\A p \in PaymentIds :
       ( \/ deletePayment(p)
         \/ \E a \in Optional(PaymentAmounts) : updatePayment(p, a) )
       => /\ billings' = billings
          /\ DOMAIN payments' \subseteq DOMAIN payments
          /\ \A q \in DOMAIN payments \ {p} :
               q \in DOMAIN payments' /\ payments'[q] = payments[q]]_vars

\* after a payment was deleted its billing is still stored as paid although no
\* payment remains for it
C14_Witness ==
  /\ last.op = "deletePayment" /\ last.code = 204
  /\ last.billing \in DOMAIN billings
  /\ billings[last.billing].grandTotal > 0
  /\ billings[last.billing].status = "paid"
  /\ PaidSum(last.billing) = 0

\* the amount the Calculator gives a line item from its own fields
itemAmount(item) == itemTotal(item) - itemDiscount(item) + itemVat(item)

\* C15: every stored line item's amount is the server's computation from its
\* quantity, price, discount and vat, whatever amount the client sent.
C15_AmountRecomputed ==
  \A b \in DOMAIN billings :
    \A i \in 1..Len(billings[b].items) :
      billings[b].items[i].amount = itemAmount(billings[b].items[i])

\* a line item with every absent numeric field read as 0
zeroFilled(item) ==
  [f \in {"quantity", "price", "discount", "vat"} |->
     IF f \in DOMAIN item THEN item[f] ELSE 0]

\* C16: when a line item lacks quantity, price, discount or vat, the missing
\* field is treated as 0 before the computation, so createBilling stores
\* aggregates that are defined numbers: for the item {quantity 1, price 2}
\* subTotal 2, discount 0, tax 0, grandTotal 2.
C16_MissingFieldsAsZero ==
  [][createBilling(StoredCase, "oneTime", Undefined, Given(<<ItemC>>))
     => /\ last' = Response("createBilling", 201, nextBid)
        /\ nextBid \in DOMAIN billings'
        /\ LET t == calculatedTotals(<<zeroFilled(ItemC)>>)
               doc == billings'[nextBid]
           IN /\ doc.subTotal = t.subTotal
              /\ doc.discount = t.discount
              /\ doc.tax = t.tax
              /\ doc.grandTotal = t.grandTotal]_vars

\* the Calculator has run over the item list of slot s
Calculated(s) == req[s].op = "calculate" /\ req[s].pc = "done"

\* the sum x[1] + ... + x[n] of numbers, accumulated from 0 in list order
RECURSIVE numSum(_, _)
numSum(x, n) == IF n = 0 THEN Zero ELSE numAdd(numSum(x, n - 1), x[n])

\* x and y differ by at most one part in 2^40 of the larger
numClose(x, y) ==
  LET hi == IF numLE(x, y) THEN y ELSE x
      lo == IF numLE(x, y) THEN x ELSE y
  IN numLE(numSub(hi, lo), numMul(hi, [m |-> <<1>>, e |-> 0 - 40]))

\* quantity*price
lineTotal(item) == numMul(numOf(item.quantity), numOf(item.price))

\* quantity*price*discount/100
lineDiscount(item) ==
  numDiv(numMul(lineTotal(item), numOf(item.discount)), numOf(100))

\* (quantity*price - itemDiscount)*vat/100
lineVat(item) ==
  numDiv(numMul(numSub(lineTotal(item), lineDiscount(item)), numOf(item.vat)),
         numOf(100))

\* the three sums of the Calculator, and the example of the single item
\* {quantity 2, price 100, discount 10, vat 12}: 200, 20, 21.6, 201.6
SumsAndExample(items, t) ==
  LET n == Len(items)
  IN /\ t.subTotal = numSum([i \in 1..n |-> lineTotal(items[i])], n)
     /\ t.discount = numSum([i \in 1..n |-> lineDiscount(items[i])], n)
     /\ t.tax = numSum([i \in 1..n |-> lineVat(items[i])], n)
     /\ items = <<LineExample>> =>
          /\ t.subTotal = numOf(200)
          /\ t.discount = numOf(20)
          /\ t.tax = numDiv(numOf(216), numOf(10))
          /\ t.grandTotal = numDiv(numOf(2016), numOf(10))

\* C17 as stated: for every item list subTotal, discount and tax are the sums
\* of the per-item values, grandTotal = subTotal - discount + tax, and the
\* example item gives 200, 20, 21.6, 201.6.
C17_CalculatorFormulas ==
  \A s \in Slots :
    Calculated(s) =>
      LET t == req[s].totals
      IN /\ SumsAndExample(req[s].items, t)
         /\ t.grandTotal = numAdd(numSub(t.subTotal, t.discount), t.tax)

\* C17: subTotal, discount and tax are the sums of the per-item values and the
\* example holds; grandTotal is the sum over the items of itemTotal -
\* itemDiscount + itemVat, which is subTotal - discount + tax up to the
\* rounding of the arithmetic, and exactly for a list of at most one item.
C17_FormulasUpToRounding ==
  \A s \in Slots :
    Calculated(s) =>
      LET t == req[s].totals
          items == req[s].items
          n == Len(items)
          combined == numAdd(numSub(t.subTotal, t.discount), t.tax)
      IN /\ SumsAndExample(items, t)
         /\ t.grandTotal =
              numSum([i \in 1..n |->
                        numAdd(numSub(lineTotal(items[i]), lineDiscount(items[i])),
                               lineVat(items[i]))], n)
         /\ numClose(t.grandTotal, combined)
         /\ n <= 1 => t.grandTotal = combined

\* for the items {1, 1, 0, 0} and {1, 2, 10, 15} the grandTotal differs from
\* subTotal - discount + tax in the last place
C17_Witness ==
  /\ Calculated(1)
  /\ req[1].items = <<LineOne, LineTwo>>
  /\ req[1].totals.grandTotal #
       numAdd(numSub(req[1].totals.subTotal, req[1].totals.discount),
              req[1].totals.tax)

\* the aggregates over items[1..k] and over items[k+1..]
SplitTotals(items, k) ==
  [left  |-> numTotals(SubSeq(items, 1, k)),
   right |-> numTotals(SubSeq(items, k + 1, Len(items)))]

\* C18 as stated: for every split of an item list into L1 and L2 each
\* aggregate over L1 followed by L2 equals the sum of the aggregates over L1
\* and over L2.
C18_Additivity ==
  \A s \in Slots :
    Calculated(s) =>
      \A k \in 0..Len(req[s].items) :
        LET t == req[s].totals
            p == SplitTotals(req[s].items, k)
        IN /\ numAdd(p.left.grandTotal, p.right.grandTotal) = t.grandTotal
           /\ numAdd(p.left.subTotal, p.right.subTotal) = t.subTotal
           /\ numAdd(p.left.discount, p.right.discount) = t.discount
           /\ numAdd(p.left.tax, p.right.tax) = t.tax

\* C18: for every split each aggregate over L1 followed by L2 equals the sum
\* of the aggregates over L1 and over L2 up to the rounding of the
\* arithmetic, and exactly when L1 is empty or L2 has at most one item.
C18_AdditivityUpToRounding ==
  \A s \in Slots :
    Calculated(s) =>
      \A k \in 0..Len(req[s].items) :
        LET t == req[s].totals
            p == SplitTotals(req[s].items, k)
            exact == k = 0 \/ Len(req[s].items) - k <= 1
        IN \A f \in {"grandTotal", "subTotal", "discount", "tax"} :
             /\ numClose(numAdd(p.left[f], p.right[f]), t[f])
             /\ exact => numAdd(p.left[f], p.right[f]) = t[f]

\* the grandTotal over three items differs in the last place from the sum of
\* the grandTotals over the first item and over the other two
C18_Witness ==
  /\ Calculated(1)
  /\ req[1].items = <<LineTwo, LineTwo, LineExample>>
  /\ numAdd(SplitTotals(req[1].items, 1).left.grandTotal,
            SplitTotals(req[1].items, 1).right.grandTotal)
       # req[1].totals.grandTotal

\* C19: every successful createBilling stores a new record whose status is
\* unpaid and whose subTotal, tax, discount and grandTotal are the
\* Calculator's result over the request's items; for an empty item list the
\* four aggregates are 0.
C19_CreatedUnpaidWithTotals ==
  [][\A r \in GoodBillingRequests({Undefined}) \cup BadBillingRequests :
       (/\ last' = Response("createBilling", 201, nextBid)
        /\ createBilling(r.case, r.billingType, r.billNumber, r.items)) =>
         /\ last'.billing \notin DOMAIN billings
         /\ last'.billing \in DOMAIN billings'
         /\ LET doc == billings'[last'.billing]
                t == calculatedTotals(r.items.value)
            IN /\ doc.status = "unpaid"
               /\ doc.items = r.items.value
               /\ doc.subTotal = t.subTotal
               /\ doc.tax = t.tax
               /\ doc.discount = t.discount
               /\ doc.grandTotal = t.grandTotal
               /\ r.items.value = <<>> =>
                    /\ doc.subTotal = 0
                    /\ doc.tax = 0
                    /\ doc.discount = 0
                    /\ doc.grandTotal = 0]_vars

\* a billing with an empty item list has just been created beside one with
\* two items: the first unpaid with aggregates 3, 0.5, 0.5 and 3, the second
\* unpaid with aggregates 0
C19_Witness ==
  /\ last = Response("createBilling", 201, 2)
  /\ billings[2].items = <<>>
  /\ billings[2].status = "unpaid"
  /\ billings[2].grandTotal = 0
  /\ billings[1].items = <<ItemA, ItemB>>
  /\ billings[1].status = "unpaid"
  /\ billings[1].subTotal = 3 * Scale
  /\ billings[1].discount = Scale \div 2
  /\ billings[1].tax = Scale \div 2
  /\ billings[1].grandTotal = 3 * Scale

\* C20: createPayment with an amount that is not greater than 0 responds with
\* the validation error, createPayment with a valid amount for a billing that
\* is not stored responds with not found, and in both cases the payments stay
\* as they are and every billing keeps its status.
C20_RejectedPaymentChangesNothing ==
  [][\A b \in BillingIds, a \in PaymentAmounts :
       (createPayment(b, a) /\ (a <= 0 \/ b \notin DOMAIN billings)) =>
         /\ a <= 0 => last' = Response("createPayment", 422, 0)
         /\ (a > 0 /\ b \notin DOMAIN billings) =>
              last' = Response("createPayment", 404, 0)
         /\ payments' = payments
         /\ DOMAIN billings' = DOMAIN billings
         /\ \A x \in DOMAIN billings : billings'[x].status = billings[x].status]_vars

\* a payment for a billing that is not stored has been refused while another
\* billing holds a payment and is partially paid
C20_Witness ==
  /\ last = Response("createPayment", 404, 0)
  /\ DOMAIN billings = {1}
  /\ billings[1].status = "partiallyPaid"
  /\ Cardinality(DOMAIN payments) = 1

\* the totalPaid and dueAmount of a returned record are the sum of the
\* payments stored for billing b and the stored grandTotal less that sum
ReadsFromPayments(entry, b) ==
  /\ entry.totalPaid = PaidSum(b)
  /\ entry.dueAmount = billings[b].grandTotal - PaidSum(b)
  /\ entry.grandTotal = billings[b].grandTotal

\* C21: a detail read and every entry of a list read return totalPaid equal to
\* the sum of the amounts of the payments stored for the billing and
\* dueAmount equal to the stored grandTotal less that sum, whatever the stored
\* status and paidAmount; a billing of 500 with one payment of 500 reads
\* dueAmount 0.
C21_ReadComputesDue ==
  /\ (last.op = "getBilling" /\ last.code = 200) =>
       /\ last.billing \in DOMAIN billings
       /\ ReadsFromPayments(last.data, last.billing)
       /\ (/\ billings[last.billing].grandTotal = 500 * Scale
           /\ \E p \in DOMAIN payments :
                /\ payments[p] = [billing |-> last.billing, amount |-> 500 * Scale]
                /\ \A q \in DOMAIN payments \ {p} : payments[q].billing # last.billing)
            => last.data.dueAmount = 0
  /\ last.op = "getAllBillings" =>
       /\ DOMAIN last.data = DOMAIN billings
       /\ \A b \in DOMAIN last.data : ReadsFromPayments(last.data[b], b)

\* a billing of 500 whose only payment was changed from 200 to 500 is read:
\* the stored status is still partiallyPaid, the read gives dueAmount 0
C21_Witness ==
  /\ last.op = "getBilling" /\ last.code = 200 /\ last.billing = 1
  /\ billings[1].grandTotal = 500 * Scale
  /\ billings[1].status = "partiallyPaid"
  /\ DOMAIN payments = {1}
  /\ payments[1] = [billing |-> 1, amount |-> 500 * Scale]
  /\ last.data.totalPaid = 500 * Scale
  /\ last.data.dueAmount = 0

\* a successful createBilling of request r stores the client of r's case
ClientFromCase(r) ==
  (r.case \in DOMAIN cases /\ last' = Response("createBilling", 201, nextBid)) =>
    /\ nextBid \in DOMAIN billings'
    /\ billings'[nextBid].case = r.case
    /\ billings'[nextBid].client = cases[r.case].client

\* C22 as stated: a createBilling for a stored case stores the case's client;
\* a createBilling for a case that is not stored responds NotFound and stores
\* no billing.
C22_ClientOrNotFound ==
  [][\A r \in CaseRequests :
       createBilling(r.case, r.billingType, r.billNumber, r.items) =>
         /\ ClientFromCase(r)
         /\ r.case \notin DOMAIN cases =>
              /\ last' = Response("createBilling", 404, 0)
              /\ billings' = billings]_vars

\* C22: a createBilling for a stored case stores the case's client; a
\* createBilling for a case that is not stored stores no billing and responds
\* NotFound, unless its resolved bill number is already stored, which is
\* answered first with the conflict error.
C22_ClientOrNotFoundAfterConflict ==
  [][\A r \in CaseRequests :
       createBilling(r.case, r.billingType, r.billNumber, r.items) =>
         /\ ClientFromCase(r)
         /\ r.case \notin DOMAIN cases =>
              /\ billings' = billings
              /\ payments' = payments
              /\ last' = IF \E b \in DOMAIN billings :
                              billings[b].billNumber = resolveBillNumber(billings, r.billNumber)
                         THEN Response("createBilling", 422, 0)
                         ELSE Response("createBilling", 404, 0)]_vars

\* a createBilling for a case that is not stored was refused with NotFound
\* while a billing with the client of its case is stored
C22_Witness ==
  /\ last = Response("createBilling", 404, 0)
  /\ DOMAIN billings = {1}
  /\ billings[1].case = StoredCase
  /\ billings[1].client = "client1"

\* C23: no stored billing has the status overdue, whatever billing and
\* payment operations have run.
C23_NeverOverdue ==
  \A b \in DOMAIN billings : billings[b].status # "overdue"

\* other statuses are stored: one billing has been paid to overPaid and the
\* other has just been set to partiallyPaid by an update
C23_Witness ==
  /\ DOMAIN billings = {1, 2}
  /\ billings[1].status = "overPaid"
  /\ billings[2].status = "partiallyPaid"
  /\ last.op = "updateBilling" /\ last.code = 200

\* decimal digit strings as numbers of any size: without leading zeros
RECURSIVE decTrim(_)
decTrim(ds) == IF ds # <<>> /\ Head(ds) = "0" THEN decTrim(Tail(ds)) ELSE ds

\* a < b for digit strings without leading zeros
decLess(a, b) ==
  IF Len(a) # Len(b) THEN Len(a) < Len(b)
  ELSE \E i \in 1..Len(a) :
         /\ DigitVal(a[i]) < DigitVal(b[i])
         /\ \A j \in 1..(i - 1) : a[j] = b[j]

\* ds + 1
RECURSIVE decInc(_)
decInc(ds) ==
  IF ds = <<>> THEN <<"1">>
  ELSE LET d == DigitVal(ds[Len(ds)])
           front == SubSeq(ds, 1, Len(ds) - 1)
       IN IF d = 9 THEN decInc(front) \o <<"0">>
          ELSE front \o <<DigitChars[d + 2]>>

\* M: the largest first digit run of the values, as a number; <<>> is 0
MaxDigitRun(values) ==
  LET runs == {decTrim(regexFind(values[i])) : i \in DOMAIN values} \cup {<<>>}
  IN CHOOSE m \in runs : \A r \in runs : ~decLess(m, r)

\* C24 as stated: the generator returns the prefix followed by M + 1 padded
\* with zeros to 6 digits, M being the largest integer value of the first
\* digit run of the stored values (0 for null, digit-free and no values).
C24_NextAfterMaximum ==
  \A s \in Slots :
    (req[s].op = "generate" /\ req[s].pc = "done") =>
      req[s].number =
        (IF req[s].field = "billNumber" THEN BillPrefix ELSE CasePrefix)
        \o padStart(decInc(MaxDigitRun(req[s].values)), PadWidth)

\* two createPayment requests against billing b have both responded 201 and
\* no other request is in flight
BothCompleted(s, t, b) ==
  /\ s # t
  /\ req[s].op = "createPayment" /\ req[s].pc = "done" /\ req[s].code = 201
  /\ req[t].op = "createPayment" /\ req[t].pc = "done" /\ req[t].code = 201
  /\ req[s].billing = b /\ req[t].billing = b

\* C25: for every interleaving of two createPayment requests against the same
\* billing, once both have completed the stored status is the derivation over
\* the sum of the stored payments (both included) and the grandTotal.
C25_QuiescentStatus ==
  \A s, t \in Slots, b \in DOMAIN billings :
    BothCompleted(s, t, b) =>
      /\ {req[s].id, req[t].id} \subseteq matched(payments, b)
      /\ billings[b].status = PaymentDerivation(PaidSum(b), billings[b].grandTotal)

\* a createPayment and a deleteBilling request for billing b have both
\* responded, the delete with 204
PaymentAndDeleteCompleted(s, t, b) ==
  /\ req[s].op = "createPayment" /\ req[s].pc = "done" /\ req[s].billing = b
  /\ req[t].op = "deleteBilling" /\ req[t].pc = "done" /\ req[t].billing = b
  /\ req[t].code = 204

\* C26: for every interleaving of createPayment(billingId) with
\* deleteBilling(billingId), once both have completed every stored payment
\* references a stored billing: no payment of the deleted billing survives.
C26_NoOrphanPayment ==
  \A s, t \in Slots, b \in BillingIds :
    PaymentAndDeleteCompleted(s, t, b) =>
      \A p \in DOMAIN payments : payments[p].billing \in DOMAIN billings

\* a createPayment and an updateBilling request with items for billing b have
\* both responded with success and b is stored
PaymentAndUpdateCompleted(s, t, b) ==
  /\ req[s].op = "createPayment" /\ req[s].pc = "done" /\ req[s].code = 201
  /\ req[t].op = "updateBilling" /\ req[t].pc = "done" /\ req[t].code = 200
  /\ req[s].billing = b /\ req[t].billing = b
  /\ b \in DOMAIN billings

\* C27: for every interleaving of createPayment with an updateBilling that
\* changes the billing's items, once both have completed the stored status is
\* the derivation over the sum of the stored payments and the stored (new)
\* grandTotal.
C27_StatusFromNewGrandTotal ==
  \A s, t \in Slots, b \in BillingIds :
    PaymentAndUpdateCompleted(s, t, b) =>
      billings[b].status = StatusDerivation(PaidSum(b), billings[b].grandTotal)

\* C28: each stored billing's status is one of the declared values, and every
\* status value the handlers try to write is one of them, the value of an
\* updateBilling whose recorded payments exceed the new grandTotal included.
C28_WrittenStatusDeclared ==
  /\ [](\A b \in DOMAIN billings : billings[b].status \in StatusEnum)
  /\ [][\A id \in DOMAIN billings, i \in Optional(ItemLists) :
          (/\ last'.op = "updateBilling"
           /\ ~itemsLocked(billings[id], i)
           /\ updateBilling(id, Undefined, i)) =>
            updateStatus(totalPaid(payments, id), updateTotals(i).grandTotal)
              \in StatusEnum]_vars

\* C29: one request at a time, a createBilling without a caller-supplied
\* billNumber never responds with the conflict error, whatever billNumbers are
\* stored: the generated number differs from every stored one.
C29_GeneratedNeverConflicts ==
  /\ [](~existsBillNumber(billings, getNextBillingNumber(billings)))
  /\ [][\A i \in ItemLists :
          ~(/\ last' = Response("createBilling", 422, 0)
            /\ createBilling(StoredCase, "oneTime", Undefined, Given(i)))]_vars

\* the stated condition for passing the guard
Permitted(name, user) ==
  \/ user.roleType = "superAdmin"
  \/ /\ user.role \in DOMAIN roles
     /\ ~roles[user.role].deleted
     /\ \E i \in DOMAIN roles[user.role].permissions :
          LET p == roles[user.role].permissions[i]
          IN p \in DOMAIN permissions /\ permissions[p].name = name

\* a 403 response and nothing stored or removed
Forbidden(op) ==
  /\ last' = Response(op, 403, 0)
  /\ UNCHANGED <<billings, payments, nextBid, nextPid>>

\* C30: a request passes HasPermission(name) and reaches its handler only if
\* the user is superAdmin or the user's role is stored, not deleted and has a
\* permission of that name; every other request gets 403 and changes nothing.
C30_GuardedHandlers ==
  [][/\ \A u \in Users, r \in GuardRequests :
          (last'.op = "createBilling" /\ postBilling(u, r)) =>
            IF Permitted("billing.create", u)
            THEN createBilling(r.case, r.billingType, r.billNumber, r.items)
            ELSE Forbidden("createBilling")
     /\ \A u \in Users, b \in BillingIds, a \in PaymentAmounts :
          (last'.op = "createPayment" /\ postPayment(u, b, a)) =>
            IF Permitted("payment.create", u)
            THEN createPayment(b, a)
            ELSE Forbidden("createPayment")]_vars

\* a payment request has been refused by the guard after a billing was created
C30_Witness ==
  /\ last = Response("createPayment", 403, 0)
  /\ DOMAIN billings = {1}
  /\ payments = <<>>

====
